---- MODULE Spec2Model ----
(***************************************************************************)
(* The gathering loop controller of New_Better_mining.py as a state        *)
(* machine: the main loop (recall, scan, visit every ore spot), the        *)
(* per-location extraction loop MineSpotUntilDepleted, MineOnce, the       *)
(* offload to the beetle, and the cooldown timers keyed by 'x,y'.          *)
(* The host API (Player, Items, PathFinding, Journal, Timer, ...) is the   *)
(* environment: what it reports is chosen with \E from small sets.         *)
(***************************************************************************)
EXTENDS Integers, Sequences, FiniteSets, TLC

(***************************************************************************)
(* Bounds of the model.                                                    *)
(***************************************************************************)
\* the clock stops here; one tick of the clock is TickMS milliseconds
MaxTime == 3
\* most light resource piles the backpack holds
MaxLight == 2
\* most heavy resource piles the backpack holds
MaxHeavy == 1
\* the run counters of the observer saturate this far past maxAttempts
RunSlack == 1
\* where they saturate when the loads vary
ShortRun == 4
\* the outer loop recalls at most this often
MaxCycles == 2

(***************************************************************************)
(* Configuration of the script.                                            *)
(***************************************************************************)
\* milliseconds per clock tick: every timer duration is counted in ticks
TickMS == 600000
\* line 21: 1,200,000 ms
oreCooldownMS == 1200000
oreCooldown == oreCooldownMS \div TickMS
\* line 38
scanRadius == 30
\* line 368
maxAttempts == 20
\* line 82 and lines 170-172
FirstRune == 5
RuneStep == 6
LastRuneMax == 95
\* line 42-46: 0x053E 0x053B 0x0540..0x0549, 0x0459..0x045C, 0x1771..0x1780
oreStaticIDs == {1342, 1339} \cup (1344..1353) \cup (1113..1116) \cup (6001..6016)
\* Player.MaxWeight, an attribute of the character
MaxWeight == 460
\* line 66
weightLimit == MaxWeight - 400
\* line 601
max_beetle_weight == 400
\* line 564, the default of required_capacity
required_capacity == 10
\* line 6: the Mining skill the script asks for
MinSkill == 40

(***************************************************************************)
(* The world the host reports: statics per cell, walkable cells, where a   *)
(* recall lands, what a resource pile weighs.                              *)
(***************************************************************************)
Tile(id, z) == [StaticID |-> id, StaticZ |-> z]

\* Statics.GetStaticsTileInfo(x, y, Player.Map): cell (1,0) carries two
\* stacked ore statics, (2,1) a tree, (3,0) one ore static
GetStaticsTileInfo(x, y) ==
    IF x = 1 /\ y = 0 THEN << Tile(1113, 0), Tile(6001, 5) >>
    ELSE IF x = 2 /\ y = 1 THEN << Tile(3277, 0) >>
    ELSE IF x = 3 /\ y = 0 THEN << Tile(1342, 0) >>
    ELSE << >>

\* cells PathFinding.Go can reach: the free cells of row 0
Walkable(c) == c[2] = 0 /\ c[1] \in 0..40 /\ GetStaticsTileInfo(c[1], c[2]) = << >>

StartPos == <<0, 0>>
\* where the runes of the mining runebook lead
RecallSpots == { <<0, 0>>, <<32, 0>> }

LightWeight == 10
HeavyWeight == 440
\* weight of what the character carries besides resources
BaseLoads == {0, MaxWeight}
\* summed weight of the beetle's pack, as the host reports it
BeetleLoads == {390, 391}

(***************************************************************************)
(* State.                                                                  *)
(***************************************************************************)
VARIABLES
    pc,            \* where the script is
    now,           \* the host's clock, in ticks
    timers,        \* Timer: key 'x,y' -> the tick the timer expires at (0: never created)
    oreSpots,      \* the candidate list, a sequence of OreSpot
    oreSpotCoords, \* the route MoveToOreSpot last built (its X, Y), <<>> before the first
    pos,           \* Player.Position
    pack,          \* resource piles in Player.Backpack: [heavy, light]
    baseLoad,      \* weight carried besides resources
    blockCount,    \* line 81
    lastRune,      \* line 82
    attempts,      \* MineSpotUntilDepleted's local
    miningSuccess, \* MineSpotUntilDepleted's local
    moveRet,       \* who called MoveToOreSpot: "main" or "loop"
    lastOutcome,   \* observer: the branch the last MineOnce took at this location
    noProgress,    \* observer: consecutive MineOnce calls at this location without a success
    losRun,        \* observer: consecutive line-of-sight outcomes at this location
    off,           \* observer: what the last offload step did
    cycles,        \* observer: how many times the outer loop has recalled
    scenario,      \* what the environment varies: "clock", "loads", "runs" or "waits"
    wpc,           \* where the script is inside a polling loop or MoveToBeetle ("idle": not followed)
    wcount,        \* the counter of that loop: pathlock, wait_time, pauses of the poll, offsets tried
    wret,          \* who called CheckEnemy: "arrive" or "mineonce"
    mtb,           \* observer of MoveToBeetle: last distance read, signal, routes tried, result
    sm,            \* one call of _wrapped_smelter: where it is and what the helper does in it
    gb,            \* one call of GetBeetle: the global beetle, the host's mobiles, the result
    led,           \* one run of led_connection_test.py
    rune           \* observer of the recalls: how many, the index last sent to the runebook

vars == << pc, now, timers, oreSpots, oreSpotCoords, pos, pack, baseLoad, blockCount,
           lastRune, attempts, miningSuccess, moveRet, lastOutcome, noProgress, losRun, off,
           cycles, scenario, wpc, wcount, wret, mtb, sm, gb, led, rune >>

(***************************************************************************)
(* Timer: Create(name, ms) starts a timer, Check(name) is True while it    *)
(* runs.                                                                   *)
(***************************************************************************)
\* the key '%i,%i' % (x, y)
Key(x, y) == <<x, y>>

KeyCells == { <<1, 0>>, <<2, 1>>, <<3, 0>> }

TimerCheck(t, k, time) == time < t[k]

\* a timer that takes the delay for the expiry instant
TimerCreateAbs(t, k, time, delay) == [t EXCEPT ![k] = delay]

TimerCreate(t, k, time, delay) == [t EXCEPT ![k] = time + delay]

(***************************************************************************)
(* ScanStatic, lines 200-221.                                              *)
(***************************************************************************)
OreSpot(x, y, z, id) == [x |-> x, y |-> y, z |-> z, id |-> id]

\* a scan that looks at the tile id only
ScanAcceptsNoTimer(t, time, x, y, tile) == tile.StaticID \in oreStaticIDs

\* line 215: the test that lets a tile of cell (x, y) into the list
ScanAccepts(t, time, x, y, tile) ==
    tile.StaticID \in oreStaticIDs /\ ~TimerCheck(t, Key(x, y), time)

\* line 213-216: the tiles of one cell, in the order the host lists them
RECURSIVE ScanTiles(_, _, _, _, _, _)
ScanTiles(t, time, x, y, tiles, i) ==
    IF i > Len(tiles) THEN << >>
    ELSE (IF ScanAccepts(t, time, x, y, tiles[i])
          THEN << OreSpot(x, y, tiles[i].StaticZ, tiles[i].StaticID) >>
          ELSE << >>) \o ScanTiles(t, time, x, y, tiles, i + 1)

\* line 212: the cells of the scanned square that carry statics
BoxCells(p) ==
    {c \in ((p[1] - scanRadius)..(p[1] + scanRadius))
           \X ((p[2] - scanRadius)..(p[2] + scanRadius)) :
        Len(GetStaticsTileInfo(c[1], c[2])) > 0}

\* lines 209-219 visit the cells column by column: x ascending, then y ascending
FirstCell(S) ==
    CHOOSE c \in S : \A d \in S : c[1] < d[1] \/ (c[1] = d[1] /\ c[2] <= d[2])

RECURSIVE ScanCells(_, _, _)
ScanCells(t, time, S) ==
    IF S = {} THEN << >>
    ELSE LET c == FirstCell(S)
         IN  ScanTiles(t, time, c[1], c[2], GetStaticsTileInfo(c[1], c[2]), 1)
             \o ScanCells(t, time, S \ {c})

\* squared Euclidean distance: sqrt is monotone, so it orders as line 220's key
Dist2(spot, p) == (spot.x - p[1]) * (spot.x - p[1]) + (spot.y - p[2]) * (spot.y - p[2])

\* sorted() is stable: a spot goes before the first strictly farther one, and
\* the spots are inserted first to last, so equal keys keep their order
RECURSIVE InsertSorted(_, _, _)
InsertSorted(s, spot, p) ==
    IF s = << >> THEN << spot >>
    ELSE IF Dist2(spot, p) < Dist2(Head(s), p)
         THEN << spot >> \o s
         ELSE << Head(s) >> \o InsertSorted(Tail(s), spot, p)

RECURSIVE SortPrefix(_, _, _)
SortPrefix(s, n, p) ==
    IF n = 0 THEN << >> ELSE InsertSorted(SortPrefix(s, n - 1, p), s[n], p)

\* a list left in the order it has
SortByDistanceKeep(s, p) == s

\* line 220 and line 798: sorted(oreSpots, key = distance to Player.Position)
SortByDistance(s, p) == SortPrefix(s, Len(s), p)

\* lines 203-220: the list ScanStatic leaves in oreSpots
ScanStatic(spots, t, time, p) ==
    SortByDistance(
        spots \o ScanCells(t, time, BoxCells(p)), p)

\* lines 223-228
RangeOreSpot(spots, p) ==
    /\ spots[1].x >= p[1] - 1 /\ spots[1].x <= p[1] + 1
    /\ spots[1].y >= p[2] - 1 /\ spots[1].y <= p[2] + 1

(***************************************************************************)
(* Weights.                                                                *)
(***************************************************************************)
\* Player.Weight
Weight(bp, base) == base + HeavyWeight * bp.heavy + LightWeight * bp.light

\* a character that counts as unable to move 10 stones early
CanMoveEarly(w) == w < MaxWeight - 10

\* lines 751-752
CanMove(w) == w < MaxWeight

\* line 378: the test that sends the loop to the beetle
NeedsOffload(w, att) == w >= weightLimit - 40 \/ (att > 0 /\ att % 8 = 0)

\* lines 564-610, from the summed weight of the pack on
BeetleHasCapacity(total, required) ==
    LET total_weight == IF total > 10000 THEN 1000 ELSE total
        remaining_capacity == max_beetle_weight - total_weight
    IN  IF remaining_capacity < 0 /\ remaining_capacity > -100
        THEN required <= 10
        ELSE remaining_capacity >= required

(***************************************************************************)
(* MineOnce, lines 413-495: the journal poll and the branch it takes.      *)
(***************************************************************************)
\* the outcome texts the journal can hold after a swing
Texts == {"riding", "nometal", "worn", "cantmine", "nolos", "loosen", "dig"}

\* what the journal holds when the poll looks: at most two outcome texts
Journals == {j \in SUBSET Texts : Cardinality(j) <= 2}

\* lines 445-454: the poll ends on any outcome text or when mineTimer has expired
PollDone(journal, expired) == journal # {} \/ expired

\* lines 459-495: the if/elif chain, first match wins
Branch(journal, expired) ==
    IF "riding" \in journal THEN "mounted"
    ELSE IF "nometal" \in journal THEN "depleted"
    ELSE IF "worn" \in journal THEN "wornout"
    ELSE IF "cantmine" \in journal \/ "nolos" \in journal THEN "blocked"
    ELSE IF "dig" \in journal \/ "loosen" \in journal THEN "success"
    ELSE IF expired THEN "timeout"
    ELSE "none"

\* a count of consecutive blocked swings: any other outcome clears it
BlockCountConsecutive(branch, bc) ==
    IF branch = "blocked" THEN (IF bc + 1 > 3 THEN 0 ELSE bc + 1) ELSE 0

\* lines 474-476: blockCount after the branch
BlockCountAfter(branch, bc) ==
    IF branch = "blocked" THEN (IF bc + 1 > 3 THEN 0 ELSE bc + 1) ELSE bc

\* a cooldown for depletion and blocks only
CreatesCooldownNoTimeout(branch, bc) ==
    \/ branch = "depleted"
    \/ branch = "blocked" /\ bc + 1 > 3

\* lines 467, 478, 492: the branches that create the cooldown timer of the spot
CreatesCooldown(branch, bc) ==
    \/ branch = "depleted"
    \/ branch = "timeout"
    \/ branch = "blocked" /\ bc + 1 > 3

\* the value MineOnce returns
MineOnceReturns(branch, bc) ==
    CASE branch = "mounted"  -> TRUE
      [] branch = "depleted" -> FALSE
      [] branch = "wornout"  -> TRUE
      [] branch = "blocked"  -> ~(bc + 1 > 3)
      [] branch = "success"  -> TRUE
      [] branch = "timeout"  -> FALSE
      [] OTHER               -> FALSE

\* lines 467, 478, 492: Timer.Create('%i,%i' % (oreSpots[0].x, oreSpots[0].y), oreCooldown)
CooldownAfter(t, spots, time, branch, bc) ==
    IF CreatesCooldown(branch, bc)
    THEN TimerCreate(t, Key(spots[1].x, spots[1].y), time, oreCooldown)
    ELSE t

(***************************************************************************)
(* MineSpotUntilDepleted, lines 358-411: the loop around MineOnce.         *)
(***************************************************************************)
\* line 371
LoopContinues(ok, att) == ok /\ att < maxAttempts

\* a counter that counts every swing
AttemptsAfterCount(ok, att) == att + 1

\* lines 402-404
AttemptsAfter(ok, att) == IF ok THEN 0 ELSE att + 1

(***************************************************************************)
(* Observers and small helpers.                                            *)
(***************************************************************************)
Min(a, b) == IF a < b THEN a ELSE b

\* where the observers noProgress and losRun saturate: past maxAttempts when
\* the environment varies the runs of outcomes, past the line-of-sight
\* threshold when it varies the loads, at 0 (not observed) in a whole session
RunCapOf(sc) ==
    IF sc = "runs" THEN maxAttempts + RunSlack
    ELSE IF sc = "loads" THEN ShortRun
    ELSE 0

NoOff == [res |-> "none", moveTried |-> FALSE, load |-> 0, drop |-> FALSE]

\* _wrapped_smelter not followed
NoSm == [pc |-> "idle", beetle |-> "none", first |-> "ok", norm |-> "ok", second |-> "ok",
         logged |-> FALSE]

\* None, where GetBeetle has no mobile to return
NoMobile == [Serial |-> 0, dist |-> 0, packAnimal |-> FALSE]

\* GetBeetle not followed
NoGb == [pc |-> "idle", stored |-> 0, beetle |-> 0, mobiles |-> << >>, ret |-> NoMobile]

\* led_connection_test.py not run
NoLed == [pc |-> "idle", typed |-> << >>, ip_address |-> << >>, sock |-> "none",
          connects |-> 0, outcome |-> "none", ret |-> "none", printed |-> "none",
          exit |-> "none"]

\* the recalls not followed
NoRune == [calls |-> 0, sent |-> 0, op |-> "none"]

\* MoveToBeetle not entered: no distance read, no signal, no route tried
NoMtb == [dist |-> 0, signal |-> FALSE, signalAt |-> 0, go |-> 0, ret |-> "none"]

\* what CheckEnemy can pull out of corpses, lines 526-530: nothing, or one pile
Loots(bp, sc) ==
    IF sc # "loads" THEN {bp} ELSE
    {bp} \cup {[bp EXCEPT !.light = @ + 1] : x \in {bp.light} \cap (0..MaxLight - 1)}
         \cup {[bp EXCEPT !.heavy = @ + 1] : x \in {bp.heavy} \cap (0..MaxHeavy - 1)}

RouteTargetsWide(spots) ==
    << <<spots[1].x, spots[1].y + 2>>, <<spots[1].x + 2, spots[1].y>>,
       <<spots[1].x - 2, spots[1].y>>, <<spots[1].x, spots[1].y - 2>> >>

\* the four route targets MoveToOreSpot tries, in order (lines 238-255)
RouteTargets(spots) ==
    << <<spots[1].x, spots[1].y + 1>>, <<spots[1].x + 1, spots[1].y>>,
       <<spots[1].x - 1, spots[1].y>>, <<spots[1].x, spots[1].y - 1>> >>

\* the cells the character can be brought to when it walks to the beetle
Stands(p) == {p} \cup {c \in {<<0, 0>>, <<2, 0>>, <<4, 0>>} : p[1] <= 4}

(***************************************************************************)
(* Initial state: the globals of lines 79-83, before the first statement.  *)
(***************************************************************************)
Init ==
    /\ pc = "start"
    /\ now = 0
    /\ timers = [k \in KeyCells |-> 0]
    /\ oreSpots = << >>
    /\ oreSpotCoords = << >>
    /\ pos = StartPos
    /\ scenario = "clock"
    /\ pack = [heavy |-> 0, light |-> 0]
    /\ baseLoad \in BaseLoads
    /\ blockCount = 0
    /\ lastRune = FirstRune
    /\ attempts = 0
    /\ miningSuccess = TRUE
    /\ moveRet = "main"
    /\ lastOutcome = "none"
    /\ noProgress = 0
    /\ losRun = 0
    /\ off = NoOff
    /\ cycles = 0
    /\ wpc = "idle"
    /\ wcount = 0
    /\ wret = "none"
    /\ mtb = NoMtb
    /\ sm = NoSm
    /\ gb = NoGb
    /\ led = NoLed
    /\ rune = NoRune

(***************************************************************************)
(* Actions.                                                                *)
(***************************************************************************)
\* lines 6-7 and 773-775: the skill check; with the skill the script asks
\* for, the first EquipPickaxe and on to the main loop
Startup ==
    /\ pc = "start"
    /\ \E miningSkill \in {MinSkill - 1, MinSkill} :
          pc' = IF miningSkill < MinSkill THEN "lowskill" ELSE "cycle"
    /\ UNCHANGED << now, timers, oreSpots, oreSpotCoords, pos, pack, baseLoad, blockCount,
                    lastRune, attempts, miningSuccess, moveRet, lastOutcome, noProgress,
                    losRun, off, cycles, scenario, wpc, wcount, wret, mtb, sm, gb, led, rune >>

\* line 8, inside the skill test: the bare name Stop.  The script ends there
\* when the host has no such name, and otherwise goes on to lines 773-775
\* and the main loop.
SkillStop ==
    /\ pc = "lowskill"
    /\ \E stopHalts \in BOOLEAN :
          pc' = IF stopHalts THEN "halted" ELSE "cycle"
    /\ UNCHANGED << now, timers, oreSpots, oreSpotCoords, pos, pack, baseLoad, blockCount,
                    lastRune, attempts, miningSuccess, moveRet, lastOutcome, noProgress,
                    losRun, off, cycles, scenario, wpc, wcount, wret, mtb, sm, gb, led, rune >>

\* the host's clock advances, between two visits or two cycles
Tick ==
    /\ pc \in {"cycle", "scanned", "visit"}
    /\ scenario = "clock"
    /\ now < MaxTime
    /\ now' = now + 1
    /\ UNCHANGED << pc, timers, oreSpots, oreSpotCoords, pos, pack, baseLoad, blockCount,
                    lastRune, attempts, miningSuccess, moveRet, lastOutcome, noProgress,
                    losRun, off, cycles, scenario, wpc, wcount, wret, mtb, sm, gb, led, rune >>

NextRuneEarly(r) == IF r + RuneStep >= LastRuneMax THEN FirstRune ELSE r + RuneStep

\* lines 170-172: the index moves on by RuneStep and wraps past LastRuneMax
NextRune(r) == IF r + RuneStep > LastRuneMax THEN FirstRune ELSE r + RuneStep

\* lines 158-174, called at line 782: the recall lands on a spot of the
\* runebook or fizzles, and the rune index moves on
RecallNextSpot ==
    /\ pc = "cycle"
    /\ cycles < MaxCycles
    /\ cycles' = cycles + 1
    /\ pos' \in RecallSpots \cup {pos}
    /\ lastRune' = NextRune(lastRune)
    /\ pc' = "scan"
    /\ UNCHANGED << now, timers, oreSpots, oreSpotCoords, pack, baseLoad, blockCount,
                    attempts, miningSuccess, moveRet, lastOutcome, noProgress, losRun, off,
                    scenario, wpc, wcount, wret, mtb, sm, gb, led, rune >>

\* lines 200-221, called at line 783
ScanStep ==
    /\ pc = "scan"
    /\ oreSpots' = ScanStatic(oreSpots, timers, now, pos)
    /\ pc' = "scanned"
    /\ UNCHANGED << now, timers, oreSpotCoords, pos, pack, baseLoad, blockCount, lastRune,
                    attempts, miningSuccess, moveRet, lastOutcome, noProgress, losRun, off, cycles, scenario, wpc, wcount, wret, mtb, sm, gb, led, rune >>

\* line 785 and lines 799-800: the test of the visiting loop
VisitTest ==
    /\ pc \in {"scanned", "visit"}
    /\ IF oreSpots # << >>
       THEN /\ pc' = "move"
            /\ moveRet' = "main"
            /\ UNCHANGED oreSpots
       ELSE /\ pc' = "cycle"
            /\ oreSpots' = << >>
            /\ UNCHANGED moveRet
    /\ UNCHANGED << now, timers, oreSpotCoords, pos, pack, baseLoad, blockCount, lastRune,
                    attempts, miningSuccess, lastOutcome, noProgress, losRun, off, cycles, scenario, wpc, wcount, wret, mtb, sm, gb, led, rune >>

\* lines 230-298, called at line 791 and line 394.  The first cascade of
\* routes ends with try k (0: all four failed and the function returns);
\* PathFinding.Go reaches a target only when the cell is walkable.  After a
\* try that the host reports as started the character is at the target or not
\* yet; the wait loop (lines 264-296) runs CheckEnemy, and ends in range or
\* gives up after 350 rounds with a second cascade that ends with try k2.
MoveToOreSpot ==
    /\ pc = "move"
    /\ LET tg == RouteTargets(oreSpots)
       IN \E k \in 0..4 :
            IF k = 0
            THEN /\ oreSpotCoords' = tg[4]
                 /\ UNCHANGED << pos, pack >>
            ELSE /\ Walkable(tg[k])
                 /\ \E arrived \in BOOLEAN :
                      LET p1 == IF arrived THEN tg[k] ELSE pos
                      IN IF RangeOreSpot(oreSpots, p1)
                         THEN /\ oreSpotCoords' = tg[k]
                              /\ pos' = p1
                              /\ UNCHANGED pack
                         ELSE /\ pack' \in Loots(pack, scenario)
                              /\ \/ /\ oreSpotCoords' = tg[k]
                                    /\ pos' = tg[k]
                                 \/ \E k2 \in 0..4 :
                                      /\ k2 # 0 => Walkable(tg[k2])
                                      /\ oreSpotCoords' = IF k2 = 0 THEN tg[4] ELSE tg[k2]
                                      /\ pos' \in {p1} \cup {tg[k2] : x \in {k2} \ {0}}
    /\ pc' = IF moveRet = "main" THEN "enter" ELSE "mineonce"
    /\ off' = NoOff
    /\ UNCHANGED << now, timers, oreSpots, baseLoad, blockCount, lastRune, attempts,
                    miningSuccess, moveRet, lastOutcome, noProgress, losRun, cycles, scenario, wpc, wcount, wret, mtb, sm, gb, led, rune >>

\* lines 358-369, called at line 792: the prologue of MineSpotUntilDepleted
MineSpotEnter ==
    /\ pc = "enter"
    /\ attempts' = 0
    /\ miningSuccess' = TRUE
    /\ lastOutcome' = "none"
    /\ noProgress' = 0
    /\ losRun' = 0
    /\ off' = NoOff
    /\ pc' = "loop"
    /\ UNCHANGED << now, timers, oreSpots, oreSpotCoords, pos, pack, baseLoad, blockCount,
                    lastRune, moveRet, cycles, scenario, wpc, wcount, wret, mtb, sm, gb, led, rune >>

\* line 371 and line 378: the loop test, then the weight test of the iteration
LoopTest ==
    /\ pc = "loop"
    /\ pc' = IF ~LoopContinues(miningSuccess, attempts) THEN "pop"
             ELSE IF NeedsOffload(Weight(pack, baseLoad), attempts) THEN "offload"
             ELSE "mineonce"
    /\ UNCHANGED << now, timers, oreSpots, oreSpotCoords, pos, pack, baseLoad, blockCount,
                    lastRune, attempts, miningSuccess, moveRet, lastOutcome, noProgress,
                    losRun, off, cycles, scenario, wpc, wcount, wret, mtb, sm, gb, led, rune >>

\* lines 379-381: the offload failed and the character is too heavy to move
TooHeavyToMove(ok, w) == ~ok /\ w >= MaxWeight - 10

\* a return test at the cannot-move boundary itself
CanReturnLoose(w) == w < MaxWeight

\* line 393: light enough to walk back to the spot
CanReturn(w) == w < MaxWeight - 20

\* lines 379-399 with MoveToBeetle (612-675) and TransferItemsToBeetle
\* (677-730).  The host decides whether a beetle is found, whether the
\* character ends within 2 tiles of it (at once, after the beetle came, or
\* after a path), whether its pack is found, what the pack weighs and which
\* piles Items.Move takes out of the backpack (mh heavy, ml light).
Offload ==
    /\ pc = "offload"
    /\ \E found \in BOOLEAN, reach \in BOOLEAN, packFound \in BOOLEAN,
          mh \in 0..pack.heavy, ml \in 0..pack.light, load \in BeetleLoads \cup {0},
          dropHeavy \in BOOLEAN :
         LET transfer  == found /\ reach
             items     == pack.heavy + pack.light
             moveTried == transfer /\ packFound /\ items > 0
             moveCount == mh + ml
             ok        == transfer /\ packFound /\ (items = 0 \/ moveCount > 0)
             pack1     == [heavy |-> pack.heavy - mh, light |-> pack.light - ml]
             w1        == Weight(pack1, baseLoad)
             critical  == TooHeavyToMove(ok, w1)
             drops     == critical /\ pack1.heavy + pack1.light > 0
             pack2     == IF ~drops THEN pack1
                          ELSE IF dropHeavy THEN [pack1 EXCEPT !.heavy = @ - 1]
                          ELSE [pack1 EXCEPT !.light = @ - 1]
         IN /\ ~moveTried => mh = 0 /\ ml = 0
            /\ ~moveTried => load = 0
            /\ drops => (IF dropHeavy THEN pack1.heavy > 0 ELSE pack1.light > 0)
            /\ ~drops => ~dropHeavy
            /\ pos' \in (IF found THEN Stands(pos) ELSE {pos})
            /\ pack' = pack2
            /\ off' = [res |-> IF ok THEN "ok" ELSE "fail", moveTried |-> moveTried,
                       load |-> load, drop |-> drops]
            /\ IF critical THEN pc' = "pop" /\ UNCHANGED moveRet
               ELSE IF CanReturn(w1) THEN pc' = "move" /\ moveRet' = "loop"
               ELSE pc' = "pop" /\ UNCHANGED moveRet
    /\ UNCHANGED << now, timers, oreSpots, oreSpotCoords, baseLoad, blockCount, lastRune,
                    attempts, miningSuccess, lastOutcome, noProgress, losRun, cycles, scenario, wpc, wcount, wret, mtb, sm, gb, led, rune >>

\* lines 413-442: MineOnce up to the swing.  CheckEnemy (497-531) may fight,
\* pull resources out of corpses and path back along oreSpotCoords;
\* EquipPickaxe finds a tool or not.  Without a tool line 434 names Stop: the
\* script ends there when the host has no such name, and otherwise goes on
\* to return False.
MineOncePre ==
    /\ pc = "mineonce"
    /\ \E enemy \in BOOLEAN :
         IF enemy
         THEN /\ pack' \in Loots(pack, scenario)
              /\ pos' \in {pos} \cup {c \in {oreSpotCoords} : Walkable(c)}
         ELSE UNCHANGED << pack, pos >>
    /\ \E pickaxe \in BOOLEAN, stopHalts \in BOOLEAN :
         IF pickaxe
         THEN /\ pc' = "swing"
              /\ UNCHANGED << attempts, miningSuccess, lastOutcome, noProgress, losRun >>
         ELSE /\ pc' = IF stopHalts THEN "halted" ELSE "loop"
              /\ miningSuccess' = FALSE
              /\ attempts' = AttemptsAfter(FALSE, attempts)
              /\ lastOutcome' = "notool"
              /\ noProgress' = Min(noProgress + 1, RunCapOf(scenario))
              /\ losRun' = 0
    /\ off' = NoOff
    /\ UNCHANGED << now, timers, oreSpots, oreSpotCoords, baseLoad, blockCount, lastRune,
                    moveRet, cycles, scenario, wpc, wcount, wret, mtb, sm, gb, led, rune >>

\* what a successful swing puts into the backpack: nothing or one light pile
Dug(bp, branch, sc) ==
    IF branch = "success" /\ sc = "loads"
    THEN {bp} \cup {[bp EXCEPT !.light = @ + 1] : x \in {bp.light} \cap (0..MaxLight - 1)}
    ELSE {bp}

\* lines 439-495 and 401-408: the swing has been issued; the poll ends with
\* the journal and mineTimer the host shows, MineOnce takes its branch and
\* returns, and MineSpotUntilDepleted books the result.
MineOnceOutcome ==
    /\ pc = "swing"
    /\ \E journal \in Journals, expired \in BOOLEAN :
         /\ PollDone(journal, expired)
         /\ journal # {} => ~expired
         /\ LET branch == Branch(journal, expired)
                ok     == MineOnceReturns(branch, blockCount)
            IN /\ timers' = CooldownAfter(timers, oreSpots, now, branch, blockCount)
               /\ blockCount' = BlockCountAfter(branch, blockCount)
               /\ miningSuccess' = ok
               /\ attempts' = AttemptsAfter(ok, attempts)
               /\ pack' \in Dug(pack, branch, scenario)
               /\ lastOutcome' = branch
               /\ noProgress' = IF branch = "success" THEN 0
                                ELSE Min(noProgress + 1, RunCapOf(scenario))
               /\ losRun' = IF branch = "blocked" THEN Min(losRun + 1, RunCapOf(scenario)) ELSE 0
    /\ pc' = "loop"
    /\ UNCHANGED << now, oreSpots, oreSpotCoords, pos, baseLoad, lastRune, moveRet, off, cycles, scenario, wpc, wcount, wret, mtb, sm, gb, led, rune >>

\* lines 797-798: the visited spot leaves the list and the rest is sorted again;
\* MineSpotUntilDepleted has returned, its locals are gone
PopAndSort ==
    /\ pc = "pop"
    /\ oreSpots' = SortByDistance(Tail(oreSpots), pos)
    /\ attempts' = 0
    /\ miningSuccess' = TRUE
    /\ moveRet' = "main"
    /\ lastOutcome' = "none"
    /\ noProgress' = 0
    /\ losRun' = 0
    /\ off' = NoOff
    /\ pc' = "visit"
    /\ UNCHANGED << now, timers, oreSpotCoords, pos, pack, baseLoad, blockCount, lastRune,
                    cycles, scenario, wpc, wcount, wret, mtb, sm, gb, led, rune >>

Next ==
    \/ Startup
    \/ SkillStop
    \/ Tick
    \/ RecallNextSpot
    \/ ScanStep
    \/ VisitTest
    \/ MoveToOreSpot
    \/ MineSpotEnter
    \/ LoopTest
    \/ Offload
    \/ MineOncePre
    \/ MineOnceOutcome
    \/ PopAndSort

Spec == Init /\ [][Next]_vars

(***************************************************************************)
(* MineSpotUntilDepleted on its own: Init is a session that has recalled   *)
(* and scanned at the start position and is about to walk to the first     *)
(* spot, with the backpack, the load and the blockCount earlier locations  *)
(* can have left; the actions are those of one visit, up to the return.    *)
(***************************************************************************)
LoopInit ==
    /\ pc = "move"
    /\ now = 0
    /\ timers = [k \in KeyCells |-> 0]
    /\ oreSpots = ScanStatic(<< >>, timers, now, StartPos)
    /\ oreSpotCoords = << >>
    /\ pos = StartPos
    /\ scenario \in {"loads", "runs"}
    /\ pack \in [heavy : 0..MaxHeavy, light : 0..MaxLight]
    /\ baseLoad \in BaseLoads
    /\ scenario = "runs" => pack.light = 0 /\ baseLoad = 0
    /\ blockCount \in 0..3
    /\ lastRune = FirstRune + RuneStep
    /\ attempts = 0
    /\ miningSuccess = TRUE
    /\ moveRet = "main"
    /\ lastOutcome = "none"
    /\ noProgress = 0
    /\ losRun = 0
    /\ off = NoOff
    /\ cycles = 1
    /\ wpc = "idle"
    /\ wcount = 0
    /\ wret = "none"
    /\ mtb = NoMtb
    /\ sm = NoSm
    /\ gb = NoGb
    /\ led = NoLed
    /\ rune = NoRune

LoopNext ==
    \/ MoveToOreSpot
    \/ MineSpotEnter
    \/ LoopTest
    \/ Offload
    \/ MineOncePre
    \/ MineOnceOutcome

LoopSpec == LoopInit /\ [][LoopNext]_vars

\* the script is one sequential thread: while a statement is left to run, it runs
FairLoopSpec == LoopSpec /\ WF_vars(LoopNext)


(***************************************************************************)
(* The polling loops and MoveToBeetle, step by step: the arrival wait of   *)
(* MoveToOreSpot (lines 264-296), CheckEnemy (497-531), the outcome poll   *)
(* of MineOnce (444-457), MoveToBeetle (612-675) with its wait for the     *)
(* beetle (629-635), and TransferItemsToBeetle (677-730).                  *)
(***************************************************************************)
\* most tiles Player.DistanceTo reports between character and beetle
MaxDist == 3
\* line 444
mineTimerMS == 5000
\* line 457
pollPauseMS == 100
\* line 271
pathlockMax == 350
\* line 629
beetleWaitMax == 5
\* lines 620, 631, 636, 640, 669: the range at which items are handed over
beetleRange == 2
\* line 657: the offsets tried after the direct route
beetleOffsets == 8

mainFrame == << pc, now, timers, oreSpots, oreSpotCoords, pos, baseLoad, blockCount,
                lastRune, attempts, miningSuccess, moveRet, lastOutcome, noProgress,
                losRun, off, cycles, scenario >>

\* line 264: the test of the arrival wait; out of range, line 265 calls CheckEnemy
ArrivalTest ==
    /\ wpc = "arrive"
    /\ \E inRange \in BOOLEAN :
         IF inRange
         THEN wpc' = "out" /\ UNCHANGED wret
         ELSE wpc' = "enemy" /\ wret' = "arrive"
    /\ UNCHANGED << wcount, mtb, pack, mainFrame, sm, gb, led, rune >>

\* lines 269-296: pathlock counts the round; past pathlockMax the routes are
\* tried once more and MoveToOreSpot returns
ArrivalCount ==
    /\ wpc = "pathlock"
    /\ IF wcount + 1 > pathlockMax
       THEN wpc' = "out" /\ wcount' = 0
       ELSE wpc' = "arrive" /\ wcount' = wcount + 1
    /\ UNCHANGED << wret, mtb, pack, mainFrame, sm, gb, led, rune >>

\* lines 498-500 and 518: Target.GetTargetFromList('enemywar') names an enemy
\* or not.  Without one CheckEnemy is over: the arrival wait goes on to count
\* its round, MineOnce goes on to the swing and creates mineTimer (line 444).
CheckEnemy ==
    /\ wpc = "enemy"
    /\ \E enemy \in BOOLEAN :
         IF enemy THEN wpc' = "fight" /\ UNCHANGED wcount
         ELSE IF wret = "arrive" THEN wpc' = "pathlock" /\ UNCHANGED wcount
         ELSE wpc' = "poll" /\ wcount' = 0
    /\ UNCHANGED << wret, mtb, pack, mainFrame, sm, gb, led, rune >>

\* lines 501-517: one round of the fight, then the list is read again
Fight ==
    /\ wpc = "fight"
    /\ wpc' = "enemy"
    /\ UNCHANGED << wcount, wret, mtb, pack, mainFrame, sm, gb, led, rune >>

\* lines 445-457: the poll ends on an outcome text or on the expired
\* mineTimer, and pauses otherwise.  wcount pauses take at least
\* wcount * pollPauseMS; the host can be slower.
OutcomePoll ==
    /\ wpc = "poll"
    /\ \E text \in BOOLEAN, slow \in BOOLEAN :
         LET expired == slow \/ wcount * pollPauseMS >= mineTimerMS
         IN IF text \/ expired
            THEN wpc' = "out" /\ wcount' = 0
            ELSE wpc' = "poll" /\ wcount' = wcount + 1
    /\ UNCHANGED << wret, mtb, pack, mainFrame, sm, gb, led, rune >>

AdjacentLoose(d) == d <= beetleRange + 1

\* lines 620, 631, 636, 641, 670: the test that lets the items be handed over
Adjacent(d) == d <= beetleRange

\* what MoveToBeetle returns
MtbReturn(ok) == IF ok THEN "True" ELSE "False"

\* lines 612-628: no beetle, False; a beetle in range, the transfer; out of
\* range and unable to move, the two HeadTargets that call the beetle and the
\* wait for it; out of range and able to move, the routes
MoveToBeetle ==
    /\ wpc = "mtb"
    /\ \E found \in BOOLEAN, d \in 0..MaxDist :
         IF ~found
         THEN /\ wpc' = "out"
              /\ mtb' = [mtb EXCEPT !.ret = MtbReturn(FALSE)]
         ELSE IF Adjacent(d)
         THEN /\ wpc' = "transfer"
              /\ mtb' = [mtb EXCEPT !.dist = d]
         ELSE IF ~CanMove(Weight(pack, baseLoad))
         THEN /\ wpc' = "beetle"
              /\ mtb' = [mtb EXCEPT !.dist = d, !.signal = TRUE, !.signalAt = mtb.go]
         ELSE /\ wpc' = "path"
              /\ mtb' = [mtb EXCEPT !.dist = d]
    /\ wcount' = 0
    /\ UNCHANGED << wret, pack, mainFrame, sm, gb, led, rune >>

\* lines 629-635: up to beetleWaitMax rounds of one second, ended early by a
\* beetle in range
BeetleWait ==
    /\ wpc = "beetle"
    /\ IF wcount < beetleWaitMax
       THEN \E d \in 0..MaxDist :
              /\ mtb' = [mtb EXCEPT !.dist = d]
              /\ IF Adjacent(d)
                 THEN wpc' = "came" /\ UNCHANGED wcount
                 ELSE wpc' = "beetle" /\ wcount' = wcount + 1
       ELSE wpc' = "came" /\ UNCHANGED << wcount, mtb >>
    /\ UNCHANGED << wret, pack, mainFrame, sm, gb, led, rune >>

\* lines 636-639: after the wait the distance is read again
BeetleCame ==
    /\ wpc = "came"
    /\ \E d \in 0..MaxDist :
         /\ mtb' = [mtb EXCEPT !.dist = d]
         /\ wpc' = IF Adjacent(d) THEN "transfer" ELSE "path"
    /\ wcount' = 0
    /\ UNCHANGED << wret, pack, mainFrame, sm, gb, led, rune >>

\* lines 640-656: still out of range, the direct route to the beetle's cell
PathDirect ==
    /\ wpc = "path"
    /\ \E d \in 0..MaxDist, ok \in BOOLEAN :
         IF Adjacent(d)
         THEN /\ mtb' = [mtb EXCEPT !.dist = d]
              /\ wpc' = "final"
         ELSE /\ mtb' = [mtb EXCEPT !.dist = d, !.go = @ + 1]
              /\ wpc' = IF ok THEN "final" ELSE "offsets"
    /\ wcount' = 0
    /\ UNCHANGED << wret, pack, mainFrame, sm, gb, led, rune >>

\* lines 657-665: the offsets around the beetle, in the order of the list;
\* when the last one fails MoveToBeetle returns False
PathOffset ==
    /\ wpc = "offsets"
    /\ \E ok \in BOOLEAN :
         /\ IF ok THEN wpc' = "final" /\ UNCHANGED wcount
            ELSE IF wcount + 1 = beetleOffsets THEN wpc' = "out" /\ wcount' = 0
            ELSE wpc' = "offsets" /\ wcount' = wcount + 1
         /\ mtb' = [mtb EXCEPT !.go = @ + 1,
                               !.ret = IF ~ok /\ wcount + 1 = beetleOffsets
                                       THEN MtbReturn(FALSE) ELSE @]
    /\ UNCHANGED << wret, pack, mainFrame, sm, gb, led, rune >>

\* lines 668-675: the last reading of the distance
MtbFinal ==
    /\ wpc = "final"
    /\ \E d \in 0..MaxDist :
         IF Adjacent(d)
         THEN /\ wpc' = "transfer"
              /\ mtb' = [mtb EXCEPT !.dist = d]
         ELSE /\ wpc' = "out"
              /\ mtb' = [mtb EXCEPT !.dist = d, !.ret = MtbReturn(FALSE)]
    /\ wcount' = 0
    /\ UNCHANGED << wret, pack, mainFrame, sm, gb, led, rune >>

\* lines 677-730: the beetle's pack is found or not; Items.Move is called for
\* every resource item of the backpack and takes mh heavy and ml light ones
\* out of it; True with nothing to move or with something moved
TransferItemsToBeetle ==
    /\ wpc = "transfer"
    /\ \E packFound \in BOOLEAN, mh \in 0..pack.heavy, ml \in 0..pack.light :
         LET items == pack.heavy + pack.light
             ok    == packFound /\ (items = 0 \/ mh + ml > 0)
         IN /\ ~packFound => mh = 0 /\ ml = 0
            /\ pack' = [heavy |-> pack.heavy - mh, light |-> pack.light - ml]
            /\ mtb' = [mtb EXCEPT !.ret = MtbReturn(ok)]
    /\ wpc' = "out"
    /\ UNCHANGED << wcount, wret, mainFrame, sm, gb, led, rune >>

\* a polling loop or MoveToBeetle about to be entered: the arrival wait, the
\* CheckEnemy of MineOnce, or MoveToBeetle with any load the character can carry
WaitInit ==
    /\ pc = "wait"
    /\ now = 0
    /\ timers = [k \in KeyCells |-> 0]
    /\ oreSpots = ScanStatic(<< >>, timers, now, StartPos)
    /\ oreSpotCoords = << >>
    /\ pos = StartPos
    /\ scenario = "waits"
    /\ pack \in [heavy : 0..MaxHeavy, light : 0..MaxLight]
    /\ baseLoad \in BaseLoads
    /\ blockCount = 0
    /\ lastRune = FirstRune + RuneStep
    /\ attempts = 0
    /\ miningSuccess = TRUE
    /\ moveRet = "main"
    /\ lastOutcome = "none"
    /\ noProgress = 0
    /\ losRun = 0
    /\ off = NoOff
    /\ cycles = 1
    /\ wpc \in {"arrive", "enemy", "mtb"}
    /\ wcount = 0
    /\ wret = IF wpc = "enemy" THEN "mineonce" ELSE "none"
    /\ mtb = NoMtb
    /\ sm = NoSm
    /\ gb = NoGb
    /\ led = NoLed
    /\ rune = NoRune

WaitNext ==
    \/ ArrivalTest
    \/ ArrivalCount
    \/ CheckEnemy
    \/ Fight
    \/ OutcomePoll
    \/ MoveToBeetle
    \/ BeetleWait
    \/ BeetleCame
    \/ PathDirect
    \/ PathOffset
    \/ MtbFinal
    \/ TransferItemsToBeetle

WaitSpec == WaitInit /\ [][WaitNext]_vars

\* the script is one sequential thread: while a statement is left to run, it runs
FairWaitSpec == WaitSpec /\ WF_vars(WaitNext)

(***************************************************************************)
(* _wrapped_smelter, lines 125-140: one call of the wrapped helper.        *)
(***************************************************************************)
\* how a call of the helper, or of _normalize_smelter_lists, can end: it
\* returns, or raises a TypeError that names List[Int32], another TypeError,
\* or another Exception
Outcomes == {"ok", "TypeErrorList", "TypeError", "Exception"}

\* line 127: the beetle is not found, is within 18 tiles, or is farther
BeetleSeen == {"none", "near", "far"}

\* lines 126-128: with the beetle farther than 18 tiles nothing is run
WrappedSmelter ==
    /\ sm.pc = "call"
    /\ sm' = [sm EXCEPT !.pc = IF sm.beetle = "far" THEN "returned" ELSE "run"]
    /\ UNCHANGED << wpc, wcount, wret, mtb, pack, mainFrame, gb, led, rune >>

\* lines 129-132 and 135-138: the first _smelter_run() inside the try; a
\* TypeError that names List[Int32] leads to the retry, every other
\* exception is reported with Misc.SendMessage and dropped
SmelterRun ==
    /\ sm.pc = "run"
    /\ sm' = CASE sm.first = "ok"            -> [sm EXCEPT !.pc = "returned"]
               [] sm.first = "TypeErrorList" -> [sm EXCEPT !.pc = "retry"]
               [] OTHER                      -> [sm EXCEPT !.pc = "returned", !.logged = TRUE]
    /\ UNCHANGED << wpc, wcount, wret, mtb, pack, mainFrame, gb, led, rune >>

\* lines 133-134, inside the except clause: _normalize_smelter_lists() and
\* the second _smelter_run().  No try encloses them: what either raises
\* leaves _wrapped_smelter.
SmelterRetry ==
    /\ sm.pc = "retry"
    /\ sm' = [sm EXCEPT !.pc = IF sm.norm = "ok" /\ sm.second = "ok"
                                THEN "returned" ELSE "propagated"]
    /\ UNCHANGED << wpc, wcount, wret, mtb, pack, mainFrame, gb, led, rune >>

\* a call of _wrapped_smelter from any of the controller's trigger points,
\* with every way the helper can behave in it
SmelterInit ==
    /\ pc = "smelt"
    /\ now = 0
    /\ timers = [k \in KeyCells |-> 0]
    /\ oreSpots = << >>
    /\ oreSpotCoords = << >>
    /\ pos = StartPos
    /\ scenario = "smelter"
    /\ pack = [heavy |-> 0, light |-> 0]
    /\ baseLoad = 0
    /\ blockCount = 0
    /\ lastRune = FirstRune
    /\ attempts = 0
    /\ miningSuccess = TRUE
    /\ moveRet = "main"
    /\ lastOutcome = "none"
    /\ noProgress = 0
    /\ losRun = 0
    /\ off = NoOff
    /\ cycles = 0
    /\ wpc = "idle"
    /\ wcount = 0
    /\ wret = "none"
    /\ mtb = NoMtb
    /\ sm \in [pc : {"call"}, beetle : BeetleSeen, first : Outcomes, norm : Outcomes,
               second : Outcomes, logged : {FALSE}]
    /\ gb = NoGb
    /\ led = NoLed
    /\ rune = NoRune

SmelterNext ==
    \/ WrappedSmelter
    \/ SmelterRun
    \/ SmelterRetry

SmelterSpec == SmelterInit /\ [][SmelterNext]_vars

(***************************************************************************)
(* GetBeetle, lines 533-562: one call, with the global beetle and the      *)
(* mobiles the host knows.                                                 *)
(***************************************************************************)
\* most mobiles Mobiles.ApplyFilter returns
MaxMobiles == 2
\* lines 540 and 554
beetleSearchRange == 15

\* one serial more than mobiles: the stored one can be gone
Serials == 1..(MaxMobiles + 1)

\* Player.DistanceTo of a mobile: next to the character, just inside the
\* search range, just outside
Dists == {1, beetleSearchRange - 1, beetleSearchRange}

\* a mobile as GetBeetle sees it; packAnimal is is_pack_animal of lines 549-553
Mobile == [Serial : Serials, dist : Dists, packAnimal : BOOLEAN]

\* what Mobiles.ApplyFilter(Mobiles.Filter()) can return, in the host's order
MobileLists ==
    { s \in UNION { [1..n -> Mobile] : n \in 0..MaxMobiles } :
        \A i, j \in DOMAIN s : i # j => s[i].Serial # s[j].Serial }

\* Mobiles.FindBySerial, line 537
FindBySerial(mobiles, serial) ==
    IF \E i \in DOMAIN mobiles : mobiles[i].Serial = serial
    THEN mobiles[CHOOSE i \in DOMAIN mobiles : mobiles[i].Serial = serial]
    ELSE NoMobile

\* line 554: a pack animal closer than the search range
Qualifies(mobile) == mobile.packAnimal /\ mobile.dist < beetleSearchRange

\* lines 547-560: the loop returns at the first mobile of the list that qualifies
FirstPackAnimal(mobiles) ==
    LET q == { i \in DOMAIN mobiles : Qualifies(mobiles[i]) }
    IN IF q = {} THEN NoMobile
       ELSE mobiles[CHOOSE i \in q : \A j \in q : i <= j]

\* lines 535-544: the stored serial, when a mobile has it closer than the
\* search range
GetBeetle ==
    /\ gb.pc = "call"
    /\ LET beetle_mobile == FindBySerial(gb.mobiles, gb.beetle)
       IN IF gb.beetle # 0 /\ beetle_mobile # NoMobile
             /\ beetle_mobile.dist < beetleSearchRange
          THEN gb' = [gb EXCEPT !.pc = "done", !.ret = beetle_mobile]
          ELSE gb' = [gb EXCEPT !.pc = "search"]
    /\ UNCHANGED << wpc, wcount, wret, mtb, pack, mainFrame, sm, led, rune >>

\* lines 545-562: the search; the mobile returned becomes the global beetle
GetBeetleSearch ==
    /\ gb.pc = "search"
    /\ LET mobile == FirstPackAnimal(gb.mobiles)
       IN gb' = [gb EXCEPT !.pc = "done", !.ret = mobile,
                           !.beetle = IF mobile = NoMobile THEN @ ELSE mobile.Serial]
    /\ UNCHANGED << wpc, wcount, wret, mtb, pack, mainFrame, sm, led, rune >>

\* GetBeetle about to be called: beetle holds a serial (line 15, or the one
\* line 556 stored), the host knows any mobiles
GetBeetleInit ==
    /\ pc = "getbeetle"
    /\ now = 0
    /\ timers = [k \in KeyCells |-> 0]
    /\ oreSpots = ScanStatic(<< >>, timers, now, StartPos)
    /\ oreSpotCoords = << >>
    /\ pos = StartPos
    /\ scenario = "getbeetle"
    /\ pack = [heavy |-> 0, light |-> 0]
    /\ baseLoad = 0
    /\ blockCount = 0
    /\ lastRune = FirstRune + RuneStep
    /\ attempts = 0
    /\ miningSuccess = TRUE
    /\ moveRet = "main"
    /\ lastOutcome = "none"
    /\ noProgress = 0
    /\ losRun = 0
    /\ off = NoOff
    /\ cycles = 1
    /\ wpc = "idle"
    /\ wcount = 0
    /\ wret = "none"
    /\ mtb = NoMtb
    /\ sm = NoSm
    /\ \E beetle \in Serials, mobiles \in MobileLists :
         gb = [pc |-> "call", stored |-> beetle, beetle |-> beetle,
               mobiles |-> mobiles, ret |-> NoMobile]
    /\ led = NoLed
    /\ rune = NoRune

GetBeetleNext ==
    \/ GetBeetle
    \/ GetBeetleSearch

GetBeetleSpec == GetBeetleInit /\ [][GetBeetleNext]_vars

(***************************************************************************)
(* The recalls, lines 158-185: RecallNextSpot and RecallBack called any    *)
(* number of times, from the lastRune of line 82.                          *)
(***************************************************************************)
\* most calls of RecallNextSpot followed
MaxRecalls == 33

\* RecallNextSpot (lines 158-174): the gump is sent the current index, the
\* recall lands on a spot or fizzles, then the index moves on
RecallNextSpotCall ==
    /\ pc = "recall"
    /\ rune.calls < MaxRecalls
    /\ rune' = [calls |-> rune.calls + 1, sent |-> lastRune, op |-> "next"]
    /\ pos' \in RecallSpots \cup {pos}
    /\ lastRune' = NextRune(lastRune)
    /\ UNCHANGED << pc, now, timers, oreSpots, oreSpotCoords, pack, baseLoad, blockCount,
                    attempts, miningSuccess, moveRet, lastOutcome, noProgress, losRun, off,
                    cycles, scenario, wpc, wcount, wret, mtb, sm, gb, led >>

\* RecallBack (lines 176-185): the gump is sent the current index, and the
\* index stays
RecallBack ==
    /\ pc = "recall"
    /\ rune' = [rune EXCEPT !.sent = lastRune, !.op = "back"]
    /\ pos' \in RecallSpots \cup {pos}
    /\ UNCHANGED << pc, now, timers, oreSpots, oreSpotCoords, pack, baseLoad, blockCount,
                    lastRune, attempts, miningSuccess, moveRet, lastOutcome, noProgress,
                    losRun, off, cycles, scenario, wpc, wcount, wret, mtb, sm, gb, led >>

\* the globals of lines 79-83 before the first recall
RuneInit ==
    /\ pc = "recall"
    /\ now = 0
    /\ timers = [k \in KeyCells |-> 0]
    /\ oreSpots = << >>
    /\ oreSpotCoords = << >>
    /\ pos = StartPos
    /\ scenario = "recalls"
    /\ pack = [heavy |-> 0, light |-> 0]
    /\ baseLoad = 0
    /\ blockCount = 0
    /\ lastRune = FirstRune
    /\ attempts = 0
    /\ miningSuccess = TRUE
    /\ moveRet = "main"
    /\ lastOutcome = "none"
    /\ noProgress = 0
    /\ losRun = 0
    /\ off = NoOff
    /\ cycles = 0
    /\ wpc = "idle"
    /\ wcount = 0
    /\ wret = "none"
    /\ mtb = NoMtb
    /\ sm = NoSm
    /\ gb = NoGb
    /\ led = NoLed
    /\ rune = NoRune

RuneNext ==
    \/ RecallNextSpotCall
    \/ RecallBack

RuneSpec == RuneInit /\ [][RuneNext]_vars

(***************************************************************************)
(* led_connection_test.py: one run of main.                                *)
(***************************************************************************)
\* most characters typed at the prompt
MaxTyped == 3

\* what can be typed: white space, and a character of an address
Chars == {" ", "1"}

Typed == UNION { [1..n -> Chars] : n \in 0..MaxTyped }

RECURSIVE StripLeft(_)
StripLeft(s) == IF s # << >> /\ Head(s) = " " THEN StripLeft(Tail(s)) ELSE s

RECURSIVE StripRight(_)
StripRight(s) ==
    IF s # << >> /\ s[Len(s)] = " " THEN StripRight(SubSeq(s, 1, Len(s) - 1)) ELSE s

\* str.strip(), line 14
Strip(s) == StripRight(StripLeft(s))

\* what sock.connect does (line 26): it connects, times out, raises another
\* OSError (refused, unreachable, unresolved), or raises something that is
\* no OSError (a host name that cannot be encoded, an interrupt)
ConnectOutcomes == {"connected", "timeout", "OSError", "other"}

CaughtTimeoutOnly(outcome) == outcome = "timeout"

\* line 28: except (socket.timeout, OSError)
Caught(outcome) == outcome \in {"timeout", "OSError"}

\* lines 12-18, called at line 35: the prompt; nothing left after strip()
\* prints the failure and exits with status 1
prompt_for_ip ==
    /\ led.pc = "prompt"
    /\ \E typed \in Typed :
         LET ip_address == Strip(typed)
         IN IF ip_address = << >>
            THEN led' = [led EXCEPT !.pc = "exited", !.typed = typed,
                                    !.printed = "FAILURE: No IP address provided.",
                                    !.exit = "1"]
            ELSE led' = [led EXCEPT !.pc = "socket", !.typed = typed,
                                    !.ip_address = ip_address]
    /\ UNCHANGED << wpc, wcount, wret, mtb, pack, mainFrame, sm, gb, rune >>

\* lines 23-24, called at line 38: the socket is created, outside the try;
\* when the host has none to give, the OSError leaves try_connect and main
try_connect ==
    /\ led.pc = "socket"
    /\ \E created \in BOOLEAN :
         IF created
         THEN led' = [led EXCEPT !.pc = "connect", !.sock = "open"]
         ELSE led' = [led EXCEPT !.pc = "raised", !.exit = "1"]
    /\ UNCHANGED << wpc, wcount, wret, mtb, pack, mainFrame, sm, gb, rune >>

\* lines 25-29: the connect and what the try makes of it
Connect ==
    /\ led.pc = "connect"
    /\ \E outcome \in ConnectOutcomes :
         led' = [led EXCEPT !.pc = "finally", !.connects = @ + 1, !.outcome = outcome,
                            !.ret = IF outcome = "connected" THEN "True"
                                    ELSE IF Caught(outcome) THEN "False"
                                    ELSE "raise"]
    /\ UNCHANGED << wpc, wcount, wret, mtb, pack, mainFrame, sm, gb, rune >>

\* lines 30-31: the finally clause closes the socket; then try_connect
\* returns, or the exception it did not catch leaves main
Finally ==
    /\ led.pc = "finally"
    /\ led' = [led EXCEPT !.sock = "closed",
                          !.pc = IF led.ret = "raise" THEN "raised" ELSE "report",
                          !.exit = IF led.ret = "raise" THEN "1" ELSE @]
    /\ UNCHANGED << wpc, wcount, wret, mtb, pack, mainFrame, sm, gb, rune >>

\* lines 38-41: main prints the result and ends
main ==
    /\ led.pc = "report"
    /\ led' = [led EXCEPT !.pc = "done", !.exit = "0",
                          !.printed = IF led.ret = "True"
                                      THEN "SUCCESS: Connection established!"
                                      ELSE "FAILURE: Could not connect."]
    /\ UNCHANGED << wpc, wcount, wret, mtb, pack, mainFrame, sm, gb, rune >>

\* line 45: main is about to be called
LedInit ==
    /\ pc = "led"
    /\ now = 0
    /\ timers = [k \in KeyCells |-> 0]
    /\ oreSpots = << >>
    /\ oreSpotCoords = << >>
    /\ pos = StartPos
    /\ scenario = "led"
    /\ pack = [heavy |-> 0, light |-> 0]
    /\ baseLoad = 0
    /\ blockCount = 0
    /\ lastRune = FirstRune
    /\ attempts = 0
    /\ miningSuccess = TRUE
    /\ moveRet = "main"
    /\ lastOutcome = "none"
    /\ noProgress = 0
    /\ losRun = 0
    /\ off = NoOff
    /\ cycles = 0
    /\ wpc = "idle"
    /\ wcount = 0
    /\ wret = "none"
    /\ mtb = NoMtb
    /\ sm = NoSm
    /\ gb = NoGb
    /\ led = [NoLed EXCEPT !.pc = "prompt"]
    /\ rune = NoRune

LedNext ==
    \/ prompt_for_ip
    \/ try_connect
    \/ Connect
    \/ Finally
    \/ main

LedSpec == LedInit /\ [][LedNext]_vars

(***************************************************************************)
(* Properties.                                                             *)
(***************************************************************************)
HeadKey == Key(oreSpots[1].x, oreSpots[1].y)

SpotCells(spots) == {Key(spots[i].x, spots[i].y) : i \in 1..Len(spots)}

\* the cells of the scanned square that carry an ore static
OreCellsInBox(p) ==
    {c \in BoxCells(p) :
        \E i \in 1..Len(GetStaticsTileInfo(c[1], c[2])) :
            GetStaticsTileInfo(c[1], c[2])[i].StaticID \in oreStaticIDs}

\* C1: whenever MoveToOreSpot or MineOnce acts on the head of oreSpots, no
\* cooldown timer is running for the head's (x, y)
C1_HeadNotCooling ==
    (pc \in {"move", "mineonce", "swing"} /\ oreSpots # << >>)
        => ~TimerCheck(timers, HeadKey, now)

\* C2: the list a scan returns holds no cell whose cooldown timer is running
C2_ScanExcludesCooling ==
    pc = "scanned" =>
        \A i \in 1..Len(oreSpots) :
            ~TimerCheck(timers, Key(oreSpots[i].x, oreSpots[i].y), now)

\* C2 witness: a scan has returned candidates and left out a cell of the
\* scanned square whose timer is running
C2_Witness ==
    /\ pc = "scanned"
    /\ oreSpots # << >>
    /\ \E k \in OreCellsInBox(pos) : TimerCheck(timers, k, now) /\ k \notin SpotCells(oreSpots)

\* C3: a depletion outcome sets the spot's expiry to the time of the outcome
\* plus oreCooldown; a scan before the expiry leaves the cell out, a scan
\* after the expiry takes it in
C3_CooldownWindow ==
    [][ /\ (pc = "swing" /\ lastOutcome' = "depleted")
            => timers'[HeadKey] = now + oreCooldown
        /\ pc = "scan"
            => \A k \in OreCellsInBox(pos) :
                  /\ now < timers[k] => k \notin SpotCells(oreSpots')
                  /\ now > timers[k] => k \in SpotCells(oreSpots') ]_vars

\* C3 witness: a scan one tick after the expiry of a cooldown has taken the cell in
C3_Witness ==
    /\ pc = "scanned"
    /\ \E k \in SpotCells(oreSpots) : timers[k] = oreCooldown /\ now = timers[k] + 1

C5_LeavesLocation == (pc = "loop") ~> (pc \in {"pop", "halted"})

\* C6: the swing of MineOnce is never issued at or above MaxWeight
C6_NoSwingOverweight == pc = "swing" => Weight(pack, baseLoad) < MaxWeight

\* C7 as claimed: an iteration that finds the weight at or past MaxWeight
\* drops a resource item and leaves the loop without the extraction action
C7_DropsAndStops ==
    [][ (pc = "offload" /\ Weight(pack, baseLoad) >= MaxWeight)
            => (off'.drop /\ pc' = "pop") ]_vars

\* C7 as amended: such an iteration tries the offload first; when the
\* offload fails it drops one resource pile if the backpack holds one and
\* leaves the loop; when the offload succeeds it drops nothing and goes on to
\* the extraction action only if the weight is then below MaxWeight - 20
C7_OffloadThenDrop ==
    [][ (pc = "offload" /\ Weight(pack, baseLoad) >= MaxWeight)
            => /\ off'.res \in {"ok", "fail"}
               /\ off'.res = "fail"
                    => /\ pc' = "pop"
                       /\ off'.drop <=> pack.heavy + pack.light > 0
                       /\ off'.drop => pack'.heavy + pack'.light = pack.heavy + pack.light - 1
               /\ off'.res = "ok"
                    => /\ ~off'.drop
                       /\ pc' = "move" <=> Weight(pack', baseLoad) < MaxWeight - 20
                       /\ pc' # "move" => pc' = "pop" ]_vars

\* C7 witness: an overweight iteration whose offload failed has dropped a pile
C7_Witness ==
    /\ pc = "pop"
    /\ off.res = "fail"
    /\ off.drop
    /\ Weight(pack, baseLoad) + LightWeight >= MaxWeight

\* C8: Items.Move into the beetle's pack is tried only when BeetleHasCapacity
\* grants the required minimum for the weight the pack has
C8_TransferNeedsCapacity ==
    off.moveTried => BeetleHasCapacity(off.load, required_capacity)

\* C9: the third consecutive line-of-sight outcome at a location creates the
\* cooldown timer of the location and MineOnce returns False
C9_ThirdBlockAbandons ==
    [][ (pc = "swing" /\ lastOutcome' = "blocked" /\ losRun' = 3)
            => (~miningSuccess' /\ timers'[HeadKey] = now + oreCooldown) ]_vars

\* C10: a MineOnce that ends with an outcome other than line-of-sight /
\* cannot-mine leaves blockCount as it was
C10_OtherOutcomesKeepBlockCount ==
    [][ (pc = "swing" /\ lastOutcome' # "blocked") => blockCount' = blockCount ]_vars

\* C10 witness: after three line-of-sight outcomes a mount-blocked outcome
\* has left blockCount at 3 and the loop goes on
C10_Witness ==
    /\ pc = "loop"
    /\ lastOutcome = "mounted"
    /\ blockCount = 3
    /\ noProgress >= 4
    /\ miningSuccess

\* C11: a poll of MineOnce that ends on the expired mineTimer with no outcome
\* text does what a depletion does: the cooldown timer of the spot is created
\* with oreCooldown, no other timer changes, MineOnce returns False, and the
\* loop test that follows leaves the location
C11_TimeoutIsDepletion ==
    [][ /\ (pc = "swing" /\ lastOutcome' = "timeout") =>
              /\ timers' = [timers EXCEPT ![HeadKey] = now + oreCooldown]
              /\ ~miningSuccess'
              /\ blockCount' = blockCount
        /\ (pc = "loop" /\ lastOutcome = "timeout") => pc' = "pop" ]_vars

\* C11 witness: the timeout has been booked, the timer of the spot runs
C11_Witness ==
    /\ pc = "loop"
    /\ lastOutcome = "timeout"
    /\ ~miningSuccess
    /\ TimerCheck(timers, HeadKey, now)
    /\ timers[HeadKey] = now + oreCooldown

\* C12: right after a scan and right after each removal of the visited spot
\* the candidates are in non-decreasing distance to the character's position,
\* and the spot the main loop walks to next is a nearest one
C12_SortedByDistance ==
    /\ pc \in {"scanned", "visit"} =>
          \A i \in 1..Len(oreSpots) - 1 :
              Dist2(oreSpots[i], pos) <= Dist2(oreSpots[i + 1], pos)
    /\ (pc = "move" /\ moveRet = "main") =>
          \A i \in 1..Len(oreSpots) : Dist2(oreSpots[1], pos) <= Dist2(oreSpots[i], pos)

\* C12 witness: a removal was followed by a sort that changed the order of
\* the remaining spots: the spot scanned last is now ahead of a nearer-scanned one
C12_Witness ==
    /\ pc = "visit"
    /\ Len(oreSpots) = 2
    /\ oreSpots[1].x = 3
    /\ oreSpots[2].x = 1
    /\ Dist2(oreSpots[1], pos) < Dist2(oreSpots[2], pos)

C15_WaitsEnd == (wpc \in {"arrive", "pathlock", "enemy", "fight", "poll", "beetle"}) ~> (wpc = "out")

\* C16: no call of _wrapped_smelter lets an exception of the helper out
C16_SmelterSuppressed == sm.pc # "propagated"

\* C17: a swing is issued at a spot only when the character stands within
\* one tile of it
C17_SwingOnlyInRange == pc = "swing" => RangeOreSpot(oreSpots, pos)

\* C18 as stated: the beetle is called only after route attempts have been made
C18_PathsBeforeSignal == mtb.signal => mtb.signalAt >= 1

\* C18 amended: out of range of the beetle, the call for the beetle comes
\* before every route attempt and only from a character too heavy to move,
\* its wait lasts at most beetleWaitMax rounds, and the routes that follow are
\* the direct one first and then the offsets in the order of the list
C18_SignalBeforePaths ==
    [][ /\ (mtb'.signal /\ ~mtb.signal) =>
              /\ wpc = "mtb" /\ wpc' = "beetle"
              /\ mtb.go = 0
              /\ mtb'.dist > beetleRange
              /\ Weight(pack, baseLoad) >= MaxWeight
        /\ wpc = "beetle" => (wcount <= beetleWaitMax /\ mtb.signal /\ mtb.go = 0)
        /\ mtb'.go # mtb.go =>
              /\ mtb'.go = mtb.go + 1
              /\ mtb.go = 0 <=> wpc = "path"
              /\ mtb.go > 0 => (wpc = "offsets" /\ mtb.go = wcount + 1)
              /\ mtb'.signal = mtb.signal ]_vars

\* C18 witness: the beetle was called, did not come, and the direct route
\* and an offset have been tried after it
C18_Witness ==
    /\ wpc = "offsets"
    /\ mtb.signal
    /\ mtb.signalAt = 0
    /\ mtb.go >= 2

\* C19: only MineOnce changes a cooldown timer, only on a depleted outcome, a
\* timeout or a blocked outcome past the threshold, and only the timer of
\* the spot being mined; a success, a worn-out tool and a mount-blocked swing
\* change no timer, return True, leave the candidate list alone and reset
\* attempts to 0, and the loop test that follows does not leave the spot
C19_CooldownOnlyOnAbandon ==
    [][ /\ timers' # timers =>
              /\ pc = "swing"
              /\ \/ lastOutcome' \in {"depleted", "timeout"}
                 \/ lastOutcome' = "blocked" /\ blockCount + 1 > 3
              /\ timers' = [timers EXCEPT ![HeadKey] = now + oreCooldown]
              /\ ~miningSuccess'
        /\ (pc = "swing" /\ lastOutcome' \in {"success", "wornout", "mounted"}) =>
              /\ timers' = timers
              /\ miningSuccess'
              /\ attempts' = 0
              /\ oreSpots' = oreSpots
        /\ (pc = "loop" /\ lastOutcome \in {"success", "wornout", "mounted"}) =>
              pc' \in {"offload", "mineonce"} ]_vars

\* C19 witness: a success that followed a blocked swing has been booked: no
\* timer was created, MineOnce returned True and attempts is 0
C19_Witness ==
    /\ pc = "loop"
    /\ lastOutcome = "success"
    /\ blockCount >= 1
    /\ miningSuccess
    /\ attempts = 0
    /\ \A k \in KeyCells : timers[k] = 0

\* C20: the count of blocked swings belongs to the spot and to the current
\* run: blockCount is 0 when MineSpotUntilDepleted starts at a spot, and 0
\* again after a success
C20_BlockCountPerLocation ==
    (pc = "loop" /\ lastOutcome \in {"none", "success"}) => blockCount = 0


\* C21: MoveToBeetle calls TransferItemsToBeetle only with a distance of at
\* most 2 tiles just read; when the last distance read is above 2 it returns
\* False; and no item leaves the backpack except in that transfer.
C21_TransferOnlyAdjacent ==
    /\ [](wpc = "transfer" => mtb.dist <= beetleRange)
    /\ []((wpc = "out" /\ mtb.dist > beetleRange) => mtb.ret = "False")
    /\ [][ pack' # pack => (wpc = "transfer" /\ mtb.dist <= beetleRange) ]_vars

\* a transfer started after a route brought the character next to the beetle
C21_Witness == wpc = "transfer" /\ mtb.go >= 1 /\ pack.heavy + pack.light > 0

\* C22: whenever TransferItemsToBeetle returns True, no resource item that
\* was in the backpack is still in it.
C22_SuccessMovedAll ==
    (wpc = "out" /\ mtb.ret = "True") => pack.heavy + pack.light = 0

\* C23: GetBeetle returns the mobile with the stored serial when it is within
\* the search range; otherwise the nearest pack animal within the range, whose
\* serial becomes the stored one; and None only when no pack animal is within
\* the range.
C23_StoredElseNearest ==
    gb.pc = "done" =>
        LET byserial == FindBySerial(gb.mobiles, gb.stored)
            near     == { i \in DOMAIN gb.mobiles : Qualifies(gb.mobiles[i]) }
        IN IF byserial # NoMobile /\ byserial.dist < beetleSearchRange
           THEN gb.ret = byserial
           ELSE IF near # {}
           THEN /\ gb.ret # NoMobile
                /\ Qualifies(gb.ret)
                /\ \A i \in near : gb.mobiles[i].dist >= gb.ret.dist
                /\ gb.beetle = gb.ret.Serial
           ELSE gb.ret = NoMobile

\* a route target that lies within one tile of the head of the list
NearHead(coords, spots) ==
    /\ coords # << >>
    /\ spots # << >>
    /\ coords[1] \in (spots[1].x - 1)..(spots[1].x + 1)
    /\ coords[2] \in (spots[1].y - 1)..(spots[1].y + 1)

RuneEntries == (LastRuneMax - FirstRune) \div RuneStep + 1

\* the index of the k-th entry, counted from 0
RuneOf(k) == FirstRune + RuneStep * (k % RuneEntries)

\* C25: lastRune stays in {5, 11, ..., 95}: after n calls of RecallNextSpot it
\* is the entry n mod 16, the n-th call having used the entry before it, so
\* the calls walk the 16 entries in round robin; RecallBack uses the current
\* entry and leaves lastRune alone.
C25_RoundRobin ==
    /\ lastRune \in {RuneOf(k) : k \in 0..(RuneEntries - 1)}
    /\ lastRune <= LastRuneMax
    /\ lastRune = RuneOf(rune.calls)
    /\ rune.op = "next" => rune.sent = RuneOf(rune.calls - 1)
    /\ rune.op = "back" => rune.sent = lastRune

\* the sixteenth call has used entry 95 and wrapped the index back to 5
C25_Witness ==
    /\ rune.calls = RuneEntries
    /\ rune.op = "next"
    /\ rune.sent = LastRuneMax
    /\ lastRune = FirstRune

\* the prompt was answered with nothing but white space
Blank(typed) == \A i \in DOMAIN typed : typed[i] = " "

\* C26: try_connect returns True exactly when the connect succeeded and False
\* on a timeout or another OSError of the connect, without raising for those,
\* and has closed the socket whenever it returns; main connects at most once,
\* and not at all after a blank answer, which prints the failure and exits
\* with status 1.
C26_TryConnect ==
    /\ led.pc \in {"report", "done"} =>
         /\ led.ret = "True" <=> led.outcome = "connected"
         /\ led.outcome \in {"timeout", "OSError"} => led.ret = "False"
         /\ led.sock = "closed"
    /\ led.outcome \in {"timeout", "OSError"} => led.pc # "raised"
    /\ led.connects <= 1
    /\ (led.pc # "prompt" /\ Blank(led.typed)) =>
         /\ led.connects = 0
         /\ led.pc = "exited"
         /\ led.printed = "FAILURE: No IP address provided."
         /\ led.exit = "1"
    /\ led.connects = 1 => ~Blank(led.typed)

\* try_connect has returned False after a connect that raised an OSError,
\* the address typed with white space around it
C26_Witness ==
    /\ led.pc = "report"
    /\ led.outcome = "OSError"
    /\ led.ret = "False"
    /\ led.sock = "closed"
    /\ led.typed # led.ip_address
====
